---- MODULE Spec2Model ----
(***************************************************************************)
(* Model of the rusty_chess front end: the coordinate helpers, the render  *)
(* builder and the three generations of the square-click handler (the DOM  *)
(* listener with its State class, the App component, the Game component    *)
(* with its 'update' subscription and the FenInput buttons), run against a *)
(* backend that answers requests and emits board snapshots.                *)
(*                                                                         *)
(* A square label is the sequence of its character codes: "e2" is          *)
(* <<101, 50>>.  null / undefined are the empty sequence, an absent piece  *)
(* or winner is the empty string.                                          *)
(***************************************************************************)
EXTENDS Integers, Sequences, FiniteSets, Bags, TLC

\* ----------------------------------------------------------------- bounds
\* clicks of one run that call the backend (they may all overlap)
MaxClicks == 2
\* board changes the backend performs in one run
MaxVer == 2
\* length of a candidate list the backend answers with
MaxMoves == 2
\* conversions and builders applied one after the other to one input
MaxCalls == 2

\* ------------------------------------------------------ coordinate model
A == 97

NULL == <<>>

NoPiece == ""

\* character code of the digit d (0..9)
Digit(d) == 48 + d

\* `${n}` for a small non-negative number
NumToString(n) == IF n < 10 THEN <<Digit(n)>> ELSE <<Digit(n \div 10), Digit(n % 10)>>

\* a faulty variant of toCoordFromOffset: the offset is read rank-major
toCoordFromOffsetRankMajor(offset) ==
    LET column == <<A + (offset % 8)>>
        row == (offset \div 8) + 1
    IN  column \o NumToString(row)

toCoordFromOffset(offset) ==
    LET column == <<A + (offset \div 8)>>
        row == (offset % 8) + 1
    IN  column \o NumToString(row)

toCoordFromXY(x, y) ==
    LET column == <<A + x>>
        row == y + 1
    IN  column \o NumToString(row)

\* parseInt of a one-character string holding a decimal digit
ParseDigit(ch) == ch - Digit(0)

\* a faulty variant of toXYFromCoord: the rank is not made zero-based
toXYFromCoordOneBased(coord) ==
    LET column == coord[1] - A
        row == ParseDigit(coord[2])
    IN  <<column, row>>

toXYFromCoord(coord) ==
    LET column == coord[1] - A
        row == ParseDigit(coord[2]) - 1
    IN  <<column, row>>

\* a faulty variant of toOffset: the offset is computed rank-major
toOffsetRankMajor(coord) ==
    LET column == coord[1] - A
        row == ParseDigit(coord[2]) - 1
    IN  row * 8 + column

toOffset(coord) ==
    LET column == coord[1] - A
        row == ParseDigit(coord[2]) - 1
    IN  column * 8 + row

\* the DOM variant's toCoord
toCoord(offset) ==
    LET rank == (offset % 8) + 1
        file == <<97 + (offset \div 8)>>
    IN  file \o NumToString(rank)

\* the squares a run clicks on and the backend names in its answers
e2 == toCoordFromXY(4, 1)

e4 == toCoordFromXY(4, 3)

d7 == toCoordFromXY(3, 6)

Squares == {e2, e4, d7}

\* ---------------------------------------------------------- render model
\* Array.prototype.find: the first element satisfying Test, NULL when none
RECURSIVE FindFrom(_, _, _)
FindFrom(seq, Test(_), i) ==
    IF i > Len(seq) THEN NULL
    ELSE IF Test(seq[i]) THEN seq[i]
    ELSE FindFrom(seq, Test, i + 1)

Find(seq, Test(_)) == FindFrom(seq, Test, 1)

\* rows.sort((a, b) => b.row - a.row): stable insertion by descending row
RECURSIVE InsertRow(_, _)
InsertRow(sorted, r) ==
    IF sorted = <<>> THEN <<r>>
    ELSE IF Head(sorted).row - r.row < 0 THEN <<r>> \o sorted
    ELSE <<Head(sorted)>> \o InsertRow(Tail(sorted), r)

RECURSIVE SortRows(_)
SortRows(rs) ==
    IF rs = <<>> THEN <<>>
    ELSE InsertRow(SortRows(SubSeq(rs, 1, Len(rs) - 1)), rs[Len(rs)])

\* a faulty variant of transformRows: of several pieces on one label the
\* last one is shown
transformRowsLastPiece(allPieces) ==
    LET square(c, r) ==
            LET coord == toCoordFromXY(c, r)
                hits == {k \in DOMAIN allPieces : allPieces[k].coord = coord}
            IN  IF hits # {}
                THEN allPieces[CHOOSE k \in hits : \A j \in hits : j <= k]
                ELSE [coord |-> coord]
        row(r) == [row |-> r, pieces |-> [i \in 1..8 |-> square(i - 1, r)]]
    IN  SortRows([i \in 1..8 |-> row(i - 1)])

\* Game.tsx transformRows: the grid from a coord-keyed piece list
transformRows(allPieces) ==
    LET square(c, r) ==
            LET coord == toCoordFromXY(c, r)
                piece == Find(allPieces, LAMBDA p : p.coord = coord)
            IN  IF piece # NULL THEN piece ELSE [coord |-> coord]
        row(r) == [row |-> r, pieces |-> [i \in 1..8 |-> square(i - 1, r)]]
    IN  SortRows([i \in 1..8 |-> row(i - 1)])

\* a faulty variant of AppRows: the piece array is read rank-major
AppRowsRankMajor(payload) ==
    LET square(c, r) ==
            LET coord == toCoordFromXY(c, r)
            IN  [coord |-> coord, piece |-> payload.pieces[r * 8 + c + 1]]
        row(r) == [row |-> r, squares |-> [i \in 1..8 |-> square(i - 1, r)]]
    IN  SortRows([i \in 1..8 |-> row(i - 1)])

\* App.tsx updateBoard: the grid from a piece array indexed by offset
AppRows(payload) ==
    LET square(c, r) ==
            LET coord == toCoordFromXY(c, r)
                offset == toOffset(coord)
            IN  [coord |-> coord, piece |-> payload.pieces[offset + 1]]
        row(r) == [row |-> r, squares |-> [i \in 1..8 |-> square(i - 1, r)]]
    IN  SortRows([i \in 1..8 |-> row(i - 1)])

\* a faulty variant of transformRowsOffset: the rows are left in the order
\* they were pushed
transformRowsOffsetUnsorted(pieces) ==
    LET square(c, r) ==
            LET coord == toCoordFromXY(c, r)
                offset == toOffset(coord)
            IN  [coord |-> coord, piece |-> pieces[offset + 1]]
        row(r) == [row |-> r, squares |-> [i \in 1..8 |-> square(i - 1, r)]]
    IN  [i \in 1..8 |-> row(i - 1)]

\* the earlier Game component's transformRows: the grid from a piece array
\* indexed by offset
transformRowsOffset(pieces) ==
    LET square(c, r) ==
            LET coord == toCoordFromXY(c, r)
                offset == toOffset(coord)
            IN  [coord |-> coord, piece |-> pieces[offset + 1]]
        row(r) == [row |-> r, squares |-> [i \in 1..8 |-> square(i - 1, r)]]
    IN  SortRows([i \in 1..8 |-> row(i - 1)])

\* the ids of the page's square elements
ElementIds == {toCoordFromXY(x, y) : x \in 0..7, y \in 0..7}

\* getImageName: an underscore before, and lower case for, every capital but the first
getImageName(piece) ==
    CASE piece = "BlackRook" -> "Black_rook"
      [] piece = "BlackKnight" -> "Black_knight"
      [] piece = "BlackBishop" -> "Black_bishop"
      [] piece = "BlackQueen" -> "Black_queen"
      [] piece = "BlackKing" -> "Black_king"
      [] piece = "BlackPawn" -> "Black_pawn"
      [] piece = "WhiteRook" -> "White_rook"
      [] piece = "WhiteKnight" -> "White_knight"
      [] piece = "WhiteBishop" -> "White_bishop"
      [] piece = "WhiteQueen" -> "White_queen"
      [] piece = "WhiteKing" -> "White_king"
      [] piece = "WhitePawn" -> "White_pawn"

\* the DOM variant's updateBoard loop: the elements' content after it ran
\* over pieces, starting from content html
DomBoard(pieces, html) ==
    [id \in ElementIds |->
        LET hits == {i \in 0..(Len(pieces) - 1) : toCoord(i) = id}
        IN  IF hits = {} THEN html[id]
            ELSE LET i == CHOOSE k \in hits : \A j \in hits : j <= k
                     piece == pieces[i + 1]
                 IN  IF piece # NoPiece THEN getImageName(piece) ELSE ""]

\* ------------------------------------------------------------- the state
VARIABLES
    component,      \* which front end runs: "Game", "App" or "Dom"
    rows,           \* Game: useState<Row[]>([])
    selected,       \* Game: useState<Coord | null>(null)
    moves,          \* Game: useState<Move[]>([])
    turn,           \* Game: useState<Color>('White')
    whiteChecked,   \* Game: useState<boolean>(false)
    blackChecked,   \* Game: useState<boolean>(false)
    winner,         \* Game: useState<string | undefined>()
    swal,           \* Game: the messages swal.fire was called with, in order
    updateListener, \* Game: the 'update' listener is registered
    board,          \* App: useState<BoardState>({ rows: [], moves: [] })
    state,          \* Dom: the State object of the DOMContentLoaded listener
    classList,      \* Dom: the highlight classes on each square element
    innerHTML,      \* Dom: the image shown in each square element
    clickListeners, \* Dom: the squares' click listeners are attached
    clicks,         \* clicks so far that called the backend
    handlers,       \* bag of the async invocations suspended at an await
    events,         \* 'update' payloads emitted and not yet delivered
    backendVer,     \* backend: number of board changes so far
    lastEvent,      \* history: the step just taken and the calls it issued
    movesVer,       \* history: board version the stored candidates were computed on
    shownVer,       \* history: board version of the snapshot on screen
    arg,            \* chess.ts: the input a chain of conversions started from
    val,            \* chess.ts: the value the chain has produced so far
    applied         \* chess.ts: the names of the functions applied, in order

vars == <<component, rows, selected, moves, turn, whiteChecked, blackChecked,
          winner, swal, updateListener, board, state, classList, innerHTML,
          clickListeners, clicks, handlers, events, backendVer, lastEvent,
          movesVer, shownVer, arg, val, applied>>

chessVars == <<arg, val, applied>>

gameVars == <<rows, selected, moves, turn, whiteChecked, blackChecked, winner, swal,
              updateListener>>

appVars == <<board>>

domVars == <<state, classList, innerHTML, clickListeners>>

\* -------------------------------------------------------------- helpers
Suspend(h) == handlers (+) SetToBag({h})

Finish(h) == handlers (-) SetToBag({h})

Replace(h, g) == (handlers (-) SetToBag({h})) (+) SetToBag({g})

Suspended == BagToSet(handlers)

NoReply == [status |-> "pending"]

NoMove == [from |-> NULL, to |-> NULL]

\* a request to the backend: the command and its coord or mv argument
Call(op, coord, mv) == [op |-> op, coord |-> coord, mv |-> mv]

Event(type, coord, sel, issued, answer) ==
    [type |-> type, coord |-> coord, sel |-> sel, issued |-> issued,
     answer |-> answer]

\* a suspended invocation: the square clicked, the await it is parked at, the
\* move it submitted, the selection its closure captured, the reply if any
Handler(coord, pc, mv, sel) ==
    [coord |-> coord, pc |-> pc, mv |-> mv, sel |-> sel, reply |-> NoReply]

\* ------------------------------------------------------------- backend
\* the position after v board changes, as the Game component's payload
PawnSquare(v) == toCoordFromXY(4, (v + 1) % 8)

GamePayload(v) ==
    [pieces |-> << [coord |-> PawnSquare(v), pieceType |-> "Pawn", color |-> "White"],
                   [coord |-> d7, pieceType |-> "King", color |-> "Black"] >>,
     turn |-> IF v % 2 = 0 THEN "White" ELSE "Black",
     whiteChecked |-> (v % 3 = 2),
     blackChecked |-> (v % 3 = 1),
     winner |-> IF v % 3 = 2 THEN "Black" ELSE ""]

\* the same position as the piece array the App and DOM variants receive
ArrayPayload(v) ==
    [pieces |-> [i \in 1..64 |->
                    IF i - 1 = toOffset(PawnSquare(v)) THEN "WhitePawn"
                    ELSE IF i - 1 = toOffset(d7) THEN "BlackKing"
                    ELSE NoPiece]]

\* the candidate lists get_available_moves may answer for a square: moves
\* from that square to pairwise different other squares
RECURSIVE MoveLists(_, _, _)
MoveLists(coord, targets, n) ==
    IF n = 0 THEN {<<>>}
    ELSE {<<>>} \cup
         UNION {{<<[from |-> coord, to |-> t]>> \o rest :
                    rest \in MoveLists(coord, targets \ {t}, n - 1)} : t \in targets}

Answers(coord) == MoveLists(coord, Squares \ {coord}, MaxMoves)

\* a board change: the version advances and, with a listener registered,
\* the new snapshot is emitted on the 'update' channel
BoardChanged ==
    /\ backendVer < MaxVer
    /\ backendVer' = backendVer + 1
    /\ events' = IF updateListener THEN Append(events, backendVer + 1) ELSE events

\* the backend serves a suspended invocation's get_board request
BackendGetBoard(h) ==
    /\ h.pc \in {"init", "update", "updateBoard"}
    /\ h.reply = NoReply
    /\ handlers' = Replace(h, [h EXCEPT !.reply = [status |-> "ok", ver |-> backendVer]])
    /\ lastEvent' = Event("backend", NULL, NULL, <<>>, NULL)
    /\ UNCHANGED <<chessVars, component, clicks, gameVars, appVars, domVars, events, backendVer,
                   movesVer, shownVer>>

\* get_available_moves; the candidate list itself is drawn when the reply is
\* consumed: the model tracks nothing it could depend on, so the behaviours
\* are the same
BackendGetAvailableMoves(h) ==
    /\ h.pc \in {"getAvailableMoves", "getAvailableMoves144", "getAvailableMoves156"}
    /\ h.reply = NoReply
    /\ handlers' = Replace(h, [h EXCEPT !.reply = [status |-> "ok", ver |-> backendVer]])
    /\ lastEvent' = Event("backend", NULL, NULL, <<>>, NULL)
    /\ UNCHANGED <<chessVars, component, clicks, gameVars, appVars, domVars, events, backendVer,
                   movesVer, shownVer>>

\* exec_move: the move is applied to the board
BackendExecMove(h) ==
    /\ h.pc = "executeMove"
    /\ h.reply = NoReply
    /\ BoardChanged
    /\ handlers' = Replace(h, [h EXCEPT !.reply = [status |-> "ok", ver |-> 0]])
    /\ lastEvent' = Event("backend", NULL, NULL, <<>>, NULL)
    /\ UNCHANGED <<chessVars, component, clicks, gameVars, appVars, domVars, movesVer, shownVer>>

\* a faulty variant of Rejected: the failing invocation clears the selection
\* on its way out
RejectedClearing(h) ==
    /\ h.reply = NoReply
    /\ h.pc # "listen"
    /\ selected' = NULL
    /\ moves' = <<>>
    /\ board' = [board EXCEPT !.selected = NULL, !.moves = <<>>]
    /\ movesVer' = 0
    /\ handlers' = Finish(h)
    /\ lastEvent' = Event("rejected", h.coord, h.sel, <<>>, NULL)
    /\ UNCHANGED <<chessVars, component, clicks, rows, turn, whiteChecked, blackChecked, winner, swal,
                   updateListener, domVars, events, backendVer, shownVer>>

\* an awaited call fails (the backend refuses it and changes nothing): the
\* promise rejects and the invocation ends there, its rejection unhandled
Rejected(h) ==
    /\ h.reply = NoReply
    /\ h.pc # "listen"
    /\ handlers' = Finish(h)
    /\ lastEvent' = Event("rejected", h.coord, h.sel, <<>>, NULL)
    /\ UNCHANGED <<chessVars, component, clicks, gameVars, appVars, domVars, events, backendVer,
                   movesVer, shownVer>>

\* ------------------------------------------------- Game: snapshots
\* `${winner} has won!`
HasWon(name) == <<name, " has won!">>

\* a faulty variant of setState: the client announces a winner of its own
\* whenever a side is in check
setStateInferringWinner(payload) ==
    /\ rows' = transformRows(payload.pieces)
    /\ turn' = payload.turn
    /\ whiteChecked' = payload.whiteChecked
    /\ blackChecked' = payload.blackChecked
    /\ winner' = payload.winner
    /\ swal' = IF payload.blackChecked THEN Append(swal, HasWon("White"))
               ELSE IF payload.whiteChecked THEN Append(swal, HasWon("Black"))
               ELSE swal

\* setState(payload) of the mount effect, and the winner effect the render
\* that follows runs when winner has changed
setState(payload) ==
    /\ rows' = transformRows(payload.pieces)
    /\ turn' = payload.turn
    /\ whiteChecked' = payload.whiteChecked
    /\ blackChecked' = payload.blackChecked
    /\ winner' = payload.winner
    /\ swal' = IF payload.winner # winner /\ payload.winner # ""
               THEN Append(swal, HasWon(payload.winner))
               ELSE swal

\* init(): getBoard() answered; its snapshot is applied and listen() is called
GameInitBoard(h) ==
    /\ component = "Game"
    /\ h.pc = "init"
    /\ h.reply.status = "ok"
    /\ setState(GamePayload(h.reply.ver))
    /\ shownVer' = h.reply.ver
    /\ handlers' = Replace(h, Handler(NULL, "listen", NoMove, NULL))
    /\ lastEvent' = Event("getBoard", NULL, NULL, <<>>, NULL)
    /\ UNCHANGED <<chessVars, component, clicks, appVars, domVars, selected, moves, updateListener, events, backendVer,
                   movesVer>>

\* init(): listen('update', ...) resolves, the listener is registered
GameListen(h) ==
    /\ component = "Game"
    /\ h.pc = "listen"
    /\ updateListener' = TRUE
    /\ handlers' = Finish(h)
    /\ lastEvent' = Event("listen", NULL, NULL, <<>>, NULL)
    /\ UNCHANGED <<chessVars, component, clicks, appVars, domVars, rows, selected, moves, turn, whiteChecked, blackChecked,
                   winner, swal, events, backendVer, movesVer, shownVer>>

\* a faulty variant of GameOnUpdate: a payload that arrives while a click's
\* request is in flight is dropped
GameOnUpdateUnlessBusy ==
    /\ component = "Game"
    /\ updateListener
    /\ events # <<>>
    /\ IF Suspended = {}
       THEN setState(GamePayload(Head(events)))
       ELSE UNCHANGED <<rows, turn, whiteChecked, blackChecked, winner, swal>>
    /\ shownVer' = Head(events)
    /\ events' = Tail(events)
    /\ lastEvent' = Event("update", NULL, NULL, <<>>, NULL)
    /\ UNCHANGED <<chessVars, component, clicks, appVars, domVars, selected, moves, updateListener,
                   handlers, backendVer, movesVer>>

\* a faulty variant of GameOnUpdate: a delivered payload also clears the
\* selection
GameOnUpdateClearing ==
    /\ component = "Game"
    /\ updateListener
    /\ events # <<>>
    /\ setState(GamePayload(Head(events)))
    /\ selected' = NULL
    /\ moves' = <<>>
    /\ movesVer' = 0
    /\ shownVer' = Head(events)
    /\ events' = Tail(events)
    /\ lastEvent' = Event("update", NULL, NULL, <<>>, NULL)
    /\ UNCHANGED <<chessVars, component, clicks, appVars, domVars, updateListener, handlers,
                   backendVer>>

\* the 'update' listener runs on the oldest undelivered payload
GameOnUpdate ==
    /\ component = "Game"
    /\ updateListener
    /\ events # <<>>
    /\ setState(GamePayload(Head(events)))
    /\ shownVer' = Head(events)
    /\ events' = Tail(events)
    /\ lastEvent' = Event("update", NULL, NULL, <<>>, NULL)
    /\ UNCHANGED <<chessVars, component, clicks, appVars, domVars, selected, moves, updateListener, handlers, backendVer,
                   movesVer>>

\* ------------------------------------------------- Game: handleSquareClick
\* a faulty variant of GameRoute: the re-click of the selected square is not
\* tested first, as in the App component
GameRouteNoDeselect(sel, mvs, coord) ==
    LET move == Find(mvs, LAMBDA m : m.to = coord)
    IN  IF sel # NULL /\ move # NULL THEN [to |-> "executeMove", move |-> move]
        ELSE [to |-> "getAvailableMoves", move |-> NoMove]

\* where handleSquareClick goes on a click, from the selected and moves of
\* the render it was created in
GameRoute(sel, mvs, coord) ==
    LET move == Find(mvs, LAMBDA m : m.to = coord)
    IN  IF sel # NULL /\ sel = coord THEN [to |-> "return", move |-> NoMove]
        ELSE IF sel # NULL /\ move # NULL THEN [to |-> "executeMove", move |-> move]
        ELSE [to |-> "getAvailableMoves", move |-> NoMove]

\* the synchronous part of handleSquareClick, up to its return or first await
GameHandleSquareClick(coord) ==
    /\ component = "Game"
    /\ rows # <<>>
    /\ LET route == GameRoute(selected, moves, coord)
       IN  CASE route.to = "return" ->
                /\ selected' = NULL
                /\ moves' = <<>>
                /\ movesVer' = 0
                /\ lastEvent' = Event("click", coord, selected, <<>>, NULL)
                /\ UNCHANGED <<handlers, clicks>>
             [] route.to = "executeMove" ->
                /\ clicks < MaxClicks
                /\ clicks' = clicks + 1
                /\ handlers' = Suspend(Handler(coord, "executeMove", route.move, selected))
                /\ lastEvent' = Event("click", coord, selected,
                                      <<Call("exec_move", NULL, route.move)>>, NULL)
                /\ UNCHANGED <<selected, moves, movesVer>>
             [] route.to = "getAvailableMoves" ->
                /\ clicks < MaxClicks
                /\ clicks' = clicks + 1
                /\ handlers' = Suspend(Handler(coord, "getAvailableMoves", NoMove, selected))
                /\ lastEvent' = Event("click", coord, selected,
                                      <<Call("get_available_moves", coord, NoMove)>>, NULL)
                /\ UNCHANGED <<selected, moves, movesVer>>
    /\ UNCHANGED <<chessVars, component, appVars, domVars, rows, turn, whiteChecked, blackChecked,
                   winner, swal, updateListener, events, backendVer, shownVer>>

\* a faulty variant of GameAfterExecuteMove: setMoves([]) is forgotten
GameAfterExecuteMoveKeepsMoves(h) ==
    /\ component = "Game"
    /\ h.pc = "executeMove"
    /\ h.reply.status = "ok"
    /\ selected' = NULL
    /\ handlers' = Finish(h)
    /\ lastEvent' = Event("executeMoveAck", h.coord, h.sel, <<>>, NULL)
    /\ UNCHANGED <<chessVars, component, clicks, appVars, domVars, rows, moves, movesVer, turn,
                   whiteChecked, blackChecked, winner, swal, updateListener, events,
                   backendVer, shownVer>>

\* handleSquareClick resumes after await executeMove(move)
GameAfterExecuteMove(h) ==
    /\ component = "Game"
    /\ h.pc = "executeMove"
    /\ h.reply.status = "ok"
    /\ selected' = NULL
    /\ moves' = <<>>
    /\ movesVer' = 0
    /\ handlers' = Finish(h)
    /\ lastEvent' = Event("executeMoveAck", h.coord, h.sel, <<>>,
                          NULL)
    /\ UNCHANGED <<chessVars, component, clicks, appVars, domVars, rows, turn, whiteChecked, blackChecked, winner, swal,
                   updateListener, events, backendVer, shownVer>>

\* a faulty variant of GameAfterGetAvailableMoves: the new candidates are
\* appended to the stored ones
GameAfterGetAvailableMovesMerging(h) ==
    /\ component = "Game"
    /\ h.pc = "getAvailableMoves"
    /\ h.reply.status = "ok"
    /\ \E availableMoves \in Answers(h.coord) :
           /\ IF Len(availableMoves) = 0
              THEN /\ selected' = NULL
                   /\ moves' = <<>>
                   /\ movesVer' = 0
              ELSE /\ selected' = h.coord
                   /\ moves' = moves \o availableMoves
                   /\ movesVer' = h.reply.ver
           /\ lastEvent' = Event("movesReply", h.coord, h.sel, <<>>, availableMoves)
    /\ handlers' = Finish(h)
    /\ UNCHANGED <<chessVars, component, clicks, appVars, domVars, rows, turn, whiteChecked,
                   blackChecked, winner, swal, updateListener, events, backendVer, shownVer>>

\* a faulty variant of GameAfterGetAvailableMoves: the empty answer is stored
\* as a selection too
GameAfterGetAvailableMovesNoEmptyTest(h) ==
    /\ component = "Game"
    /\ h.pc = "getAvailableMoves"
    /\ h.reply.status = "ok"
    /\ \E availableMoves \in Answers(h.coord) :
           /\ selected' = h.coord
           /\ moves' = availableMoves
           /\ movesVer' = h.reply.ver
           /\ lastEvent' = Event("movesReply", h.coord, h.sel, <<>>, availableMoves)
    /\ handlers' = Finish(h)
    /\ UNCHANGED <<chessVars, component, clicks, appVars, domVars, rows, turn,
                   whiteChecked, blackChecked, winner, swal, updateListener, events,
                   backendVer, shownVer>>

\* handleSquareClick resumes after await getAvailableMoves(piece.coord)
GameAfterGetAvailableMoves(h) ==
    /\ component = "Game"
    /\ h.pc = "getAvailableMoves"
    /\ h.reply.status = "ok"
    /\ \E availableMoves \in Answers(h.coord) :
           /\ IF Len(availableMoves) = 0
              THEN /\ selected' = NULL
                   /\ moves' = <<>>
                   /\ movesVer' = 0
              ELSE /\ selected' = h.coord
                   /\ moves' = availableMoves
                   /\ movesVer' = h.reply.ver
           /\ lastEvent' = Event("movesReply", h.coord, h.sel,
                                 <<>>, availableMoves)
    /\ handlers' = Finish(h)
    /\ UNCHANGED <<chessVars, component, clicks, appVars, domVars, rows, turn, whiteChecked, blackChecked, winner, swal,
                   updateListener, events, backendVer, shownVer>>

\* ------------------------------------------------- FenInput
\* handleApplyClick: await applyFen(fen), accepted by the backend (a refused
\* text changes nothing here or there)
FenHandleApplyClick ==
    /\ component = "Game"
    /\ BoardChanged
    /\ lastEvent' = Event("applyFen", NULL, selected, <<Call("apply_fen", NULL, NoMove)>>, NULL)
    /\ UNCHANGED <<chessVars, component, clicks, gameVars, appVars, domVars, handlers, movesVer, shownVer>>

\* handleUndoClick: await undo(), accepted by the backend
FenHandleUndoClick ==
    /\ component = "Game"
    /\ BoardChanged
    /\ lastEvent' = Event("undo", NULL, selected, <<Call("undo", NULL, NoMove)>>, NULL)
    /\ UNCHANGED <<chessVars, component, clicks, gameVars, appVars, domVars, handlers, movesVer, shownVer>>

\* ------------------------------------------------- App
\* update(): getBoard() answered, the rows are rebuilt and stored
AppUpdate(h) ==
    /\ component = "App"
    /\ h.pc = "init"
    /\ h.reply.status = "ok"
    /\ board' = [board EXCEPT !.rows = AppRows(ArrayPayload(h.reply.ver))]
    /\ shownVer' = h.reply.ver
    /\ handlers' = Finish(h)
    /\ lastEvent' = Event("getBoard", NULL, NULL, <<>>, NULL)
    /\ UNCHANGED <<chessVars, component, clicks, gameVars, domVars, events, backendVer, movesVer>>

\* a faulty variant of AppRoute: with a selection present the move is built
\* from the selected and the clicked square
AppRouteBuildingMove(sel, mvs, coord) ==
    IF sel # NULL /\ sel # coord
    THEN [to |-> "executeMove", move |-> [from |-> sel, to |-> coord]]
    ELSE [to |-> "getAvailableMoves", move |-> NoMove]

\* where App's handleSquareClick goes on a click, from the board of the
\* render it was created in
AppRoute(sel, mvs, coord) ==
    LET move == Find(mvs, LAMBDA m : m.to = coord)
    IN  IF sel # NULL /\ move # NULL THEN [to |-> "executeMove", move |-> move]
        ELSE [to |-> "getAvailableMoves", move |-> NoMove]

\* the synchronous part of App's handleSquareClick, up to its first await
AppHandleSquareClick(coord) ==
    /\ component = "App"
    /\ board.rows # <<>>
    /\ clicks < MaxClicks
    /\ clicks' = clicks + 1
    /\ LET route == AppRoute(board.selected, board.moves, coord)
       IN  CASE route.to = "executeMove" ->
                /\ handlers' = Suspend(Handler(coord, "executeMove", route.move,
                                               board.selected))
                /\ lastEvent' = Event("click", coord, board.selected,
                                      <<Call("exec_move", NULL, route.move)>>, NULL)
             [] route.to = "getAvailableMoves" ->
                /\ handlers' = Suspend(Handler(coord, "getAvailableMoves", NoMove,
                                               board.selected))
                /\ lastEvent' = Event("click", coord, board.selected,
                                      <<Call("get_available_moves", coord, NoMove)>>, NULL)
    /\ UNCHANGED <<chessVars, component, gameVars, appVars, domVars, events, backendVer, movesVer,
                   shownVer>>

\* a faulty variant of AppAfterExecuteMove: the selection is cleared at the
\* acknowledgement, before the snapshot is fetched again
AppAfterExecuteMoveResetFirst(h) ==
    /\ component = "App"
    /\ h.pc = "executeMove"
    /\ h.reply.status = "ok"
    /\ board' = [board EXCEPT !.selected = NULL, !.moves = <<>>]
    /\ movesVer' = 0
    /\ handlers' = Replace(h, [h EXCEPT !.pc = "update", !.reply = NoReply])
    /\ lastEvent' = Event("executeMoveAck", h.coord, h.sel,
                          <<Call("get_board", NULL, NoMove)>>, NULL)
    /\ UNCHANGED <<chessVars, component, clicks, gameVars, domVars, events,
                   backendVer, shownVer>>

\* handleSquareClick resumes after await executeMove(move) and calls update()
AppAfterExecuteMove(h) ==
    /\ component = "App"
    /\ h.pc = "executeMove"
    /\ h.reply.status = "ok"
    /\ handlers' = Replace(h, [h EXCEPT !.pc = "update", !.reply = NoReply])
    /\ lastEvent' = Event("executeMoveAck", h.coord, h.sel,
                          <<Call("get_board", NULL, NoMove)>>, NULL)
    /\ UNCHANGED <<chessVars, component, clicks, gameVars, appVars, domVars, events, backendVer,
                   movesVer, shownVer>>

\* handleSquareClick resumes after await update(): the rows are stored, then
\* the selection is cleared
AppAfterUpdate(h) ==
    /\ component = "App"
    /\ h.pc = "update"
    /\ h.reply.status = "ok"
    /\ board' = [rows |-> AppRows(ArrayPayload(h.reply.ver)),
                 selected |-> NULL, moves |-> <<>>]
    /\ shownVer' = h.reply.ver
    /\ movesVer' = 0
    /\ handlers' = Finish(h)
    /\ lastEvent' = Event("updated", h.coord, h.sel, <<>>, NULL)
    /\ UNCHANGED <<chessVars, component, clicks, gameVars, domVars, events, backendVer>>

\* handleSquareClick resumes after await getAvailableMoves(square.coord);
\* board is the value its closure captured
AppAfterGetAvailableMoves(h) ==
    /\ component = "App"
    /\ h.pc = "getAvailableMoves"
    /\ h.reply.status = "ok"
    /\ \E availableMoves \in Answers(h.coord) :
           /\ IF h.sel = h.coord \/ Len(availableMoves) = 0
              THEN /\ board' = [board EXCEPT !.selected = NULL, !.moves = <<>>]
                   /\ movesVer' = 0
              ELSE /\ board' = [board EXCEPT !.selected = h.coord,
                                             !.moves = availableMoves]
                   /\ movesVer' = h.reply.ver
           /\ lastEvent' = Event("movesReply", h.coord, h.sel, <<>>, availableMoves)
    /\ handlers' = Finish(h)
    /\ UNCHANGED <<chessVars, component, clicks, gameVars, domVars, events, backendVer, shownVer>>

\* ------------------------------------------------- DOM listener
\* State.set
StateSet(coord, mvs) == [isMoving |-> TRUE, coord |-> coord, moves |-> mvs]

\* State.reset, and the state of a new State()
StateReset == [isMoving |-> FALSE, coord |-> NULL, moves |-> NULL]

resetHighlights(cl) == [id \in DOMAIN cl |-> cl[id] \ {"to", "from"}]

\* square.classList.add('from') and, for each move, to.classList.add('to')
AddHighlights(cl, coord, mvs) ==
    [id \in DOMAIN cl |->
        cl[id] \cup (IF id = coord THEN {"from"} ELSE {})
               \cup (IF \E k \in DOMAIN mvs : mvs[k].to = id THEN {"to"} ELSE {})]

\* DOMContentLoaded: the first updateBoard() is answered, the click
\* listeners are attached
DomContentLoaded(h) ==
    /\ component = "Dom"
    /\ h.pc = "init"
    /\ h.reply.status = "ok"
    /\ innerHTML' = DomBoard(ArrayPayload(h.reply.ver).pieces, innerHTML)
    /\ clickListeners' = TRUE
    /\ shownVer' = h.reply.ver
    /\ handlers' = Finish(h)
    /\ lastEvent' = Event("getBoard", NULL, NULL, <<>>, NULL)
    /\ UNCHANGED <<chessVars, component, clicks, gameVars, appVars, state, classList, events,
                   backendVer, movesVer>>

\* a faulty variant of DomRoute: while moving, a click anywhere but on the
\* selected square submits the first stored move
DomRouteFirstMove(st, coord) ==
    IF st.isMoving
    THEN IF st.coord = coord THEN [to |-> "return", move |-> NoMove]
         ELSE [to |-> "executeMove", move |-> st.moves[1]]
    ELSE [to |-> "getAvailableMoves156", move |-> NoMove]

\* where a square's click listener goes on a click, from the State object
DomRoute(st, coord) ==
    LET move == Find(st.moves, LAMBDA m : m.to = coord)
    IN  IF st.isMoving
        THEN IF st.coord = coord THEN [to |-> "return", move |-> NoMove]
             ELSE IF move # NULL THEN [to |-> "executeMove", move |-> move]
             ELSE [to |-> "getAvailableMoves144", move |-> NoMove]
        ELSE [to |-> "getAvailableMoves156", move |-> NoMove]

\* the synchronous part of a square's click listener, up to its return or
\* first await
DomClick(coord) ==
    /\ component = "Dom"
    /\ clickListeners
    /\ LET route == DomRoute(state, coord)
       IN  CASE route.to = "return" ->
                /\ classList' = resetHighlights(classList)
                /\ state' = StateReset
                /\ movesVer' = 0
                /\ lastEvent' = Event("click", coord, state.coord, <<>>, NULL)
                /\ UNCHANGED <<handlers, clicks>>
             [] route.to = "executeMove" ->
                /\ clicks < MaxClicks
                /\ clicks' = clicks + 1
                /\ handlers' = Suspend(Handler(coord, "executeMove", route.move,
                                               state.coord))
                /\ lastEvent' = Event("click", coord, state.coord,
                                      <<Call("exec_move", NULL, route.move)>>, NULL)
                /\ UNCHANGED <<state, classList, movesVer>>
             [] route.to = "getAvailableMoves144" ->
                /\ clicks < MaxClicks
                /\ clicks' = clicks + 1
                /\ handlers' = Suspend(Handler(coord, "getAvailableMoves144", NoMove,
                                               state.coord))
                /\ lastEvent' = Event("click", coord, state.coord,
                                      <<Call("get_available_moves", coord, NoMove)>>, NULL)
                /\ UNCHANGED <<state, classList, movesVer>>
             [] route.to = "getAvailableMoves156" ->
                /\ clicks < MaxClicks
                /\ clicks' = clicks + 1
                /\ classList' = resetHighlights(classList)
                /\ handlers' = Suspend(Handler(coord, "getAvailableMoves156", NoMove,
                                               state.coord))
                /\ lastEvent' = Event("click", coord, state.coord,
                                      <<Call("get_available_moves", coord, NoMove)>>, NULL)
                /\ UNCHANGED <<state, movesVer>>
    /\ UNCHANGED <<chessVars, component, gameVars, appVars, innerHTML, clickListeners, events,
                   backendVer, shownVer>>

\* the listener resumes after await executeMove(move) and calls updateBoard()
DomAfterExecuteMove(h) ==
    /\ component = "Dom"
    /\ h.pc = "executeMove"
    /\ h.reply.status = "ok"
    /\ handlers' = Replace(h, [h EXCEPT !.pc = "updateBoard", !.reply = NoReply])
    /\ lastEvent' = Event("executeMoveAck", h.coord, h.sel,
                          <<Call("get_board", NULL, NoMove)>>, NULL)
    /\ UNCHANGED <<chessVars, component, clicks, gameVars, appVars, domVars, events, backendVer,
                   movesVer, shownVer>>

\* the listener resumes after await updateBoard(): the board is redrawn,
\* then state.reset() and resetHighlights()
DomAfterUpdateBoard(h) ==
    /\ component = "Dom"
    /\ h.pc = "updateBoard"
    /\ h.reply.status = "ok"
    /\ innerHTML' = DomBoard(ArrayPayload(h.reply.ver).pieces, innerHTML)
    /\ state' = StateReset
    /\ classList' = resetHighlights(classList)
    /\ shownVer' = h.reply.ver
    /\ movesVer' = 0
    /\ handlers' = Finish(h)
    /\ lastEvent' = Event("updated", h.coord, h.sel, <<>>, NULL)
    /\ UNCHANGED <<chessVars, component, clicks, gameVars, appVars, clickListeners, events,
                   backendVer>>

\* the listener resumes after one of its two await getAvailableMoves(coord)
DomAfterGetAvailableMoves(h) ==
    /\ component = "Dom"
    /\ h.pc \in {"getAvailableMoves144", "getAvailableMoves156"}
    /\ h.reply.status = "ok"
    /\ \E mvs \in Answers(h.coord) :
           /\ IF Len(mvs) = 0
              THEN UNCHANGED <<state, classList, movesVer>>
              ELSE /\ state' = StateSet(h.coord, mvs)
                   /\ classList' =
                        AddHighlights(IF h.pc = "getAvailableMoves144"
                                      THEN resetHighlights(classList)
                                      ELSE classList, h.coord, mvs)
                   /\ movesVer' = h.reply.ver
           /\ lastEvent' = Event("movesReply", h.coord, h.sel, <<>>, mvs)
    /\ handlers' = Finish(h)
    /\ UNCHANGED <<chessVars, component, clicks, gameVars, appVars, innerHTML, clickListeners,
                   events, backendVer, shownVer>>

\* ------------------------------------------------- the specification
Init ==
    /\ component \in {"Game", "App", "Dom"}
    /\ rows = <<>>
    /\ selected = NULL
    /\ moves = <<>>
    /\ turn = "White"
    /\ whiteChecked = FALSE
    /\ blackChecked = FALSE
    /\ winner = ""
    /\ swal = <<>>
    /\ updateListener = FALSE
    /\ board = [rows |-> <<>>, selected |-> NULL, moves |-> <<>>]
    /\ state = StateReset
    /\ classList = [id \in IF component = "Dom" THEN ElementIds ELSE {} |-> {}]
    /\ innerHTML = [id \in IF component = "Dom" THEN ElementIds ELSE {} |-> ""]
    /\ clickListeners = FALSE
    /\ clicks = 0
    /\ handlers = SetToBag({Handler(NULL, "init", NoMove, NULL)})
    /\ events = <<>>
    /\ backendVer = 0
    /\ lastEvent = Event("mount", NULL, NULL, <<Call("get_board", NULL, NoMove)>>, NULL)
    /\ movesVer = 0
    /\ shownVer = 0
    /\ arg = NULL
    /\ val = NULL
    /\ applied = <<>>

Next ==
    \/ \E h \in Suspended : BackendGetBoard(h)
    \/ \E h \in Suspended : BackendGetAvailableMoves(h)
    \/ \E h \in Suspended : BackendExecMove(h)
    \/ \E h \in Suspended : Rejected(h)
    \/ \E h \in Suspended : GameInitBoard(h)
    \/ \E h \in Suspended : GameListen(h)
    \/ GameOnUpdate
    \/ \E coord \in Squares : GameHandleSquareClick(coord)
    \/ \E h \in Suspended : GameAfterExecuteMove(h)
    \/ \E h \in Suspended : GameAfterGetAvailableMoves(h)
    \/ FenHandleApplyClick
    \/ FenHandleUndoClick
    \/ \E h \in Suspended : AppUpdate(h)
    \/ \E coord \in Squares : AppHandleSquareClick(coord)
    \/ \E h \in Suspended : AppAfterExecuteMove(h)
    \/ \E h \in Suspended : AppAfterUpdate(h)
    \/ \E h \in Suspended : AppAfterGetAvailableMoves(h)
    \/ \E h \in Suspended : DomContentLoaded(h)
    \/ \E coord \in Squares : DomClick(coord)
    \/ \E h \in Suspended : DomAfterExecuteMove(h)
    \/ \E h \in Suspended : DomAfterUpdateBoard(h)
    \/ \E h \in Suspended : DomAfterGetAvailableMoves(h)

Spec == Init /\ [][Next]_vars

\* ------------------------------------------------- chess.ts and the builders, alone
\* the labels a1..h8
Labels == {<<f, r>> : f \in 97..104, r \in 49..56}

\* a label outside the board
i9 == <<105, 57>>

Value(kind, v) == [kind |-> kind, v |-> v]

\* piece arrays indexed by offset: the empty board, and a white pawn and a
\* black king anywhere (the king alone where both fall on one offset)
PieceArrays ==
    {[i \in 1..64 |-> NoPiece]} \cup
    {[i \in 1..64 |-> IF i - 1 = q THEN "BlackKing"
                      ELSE IF i - 1 = p THEN "WhitePawn"
                      ELSE NoPiece] : p \in 0..63, q \in 0..63}

\* coord-keyed piece lists: none, one or two pieces, on any label or off the
\* board, also both on one label
PieceLists ==
    LET pawn(c) == [coord |-> c, pieceType |-> "Pawn", color |-> "White"]
        king(c) == [coord |-> c, pieceType |-> "King", color |-> "Black"]
        coords == Labels \cup {i9}
    IN  {<<>>} \cup {<<pawn(c)>> : c \in coords}
               \cup {<<pawn(c), king(d)>> : c \in coords, d \in coords}

\* the inputs a chain starts from: an offset, a pair of indices, a label, a
\* piece array or a piece list
Inputs(kind) ==
    CASE kind = "offset" -> 0..63
      [] kind = "xy" -> (0..7) \X (0..7)
      [] kind = "coord" -> Labels
      [] kind = "pieces" -> PieceArrays
      [] kind = "pieceList" -> PieceLists

\* one function of chess.ts, or one builder, is applied to the value at hand
Apply(fn, from, to, result) ==
    /\ component = "chess"
    /\ Len(applied) < MaxCalls
    /\ val.kind = from
    /\ val' = Value(to, result)
    /\ applied' = Append(applied, fn)
    /\ UNCHANGED <<arg, component, gameVars, appVars, domVars, clicks, handlers,
                   events, backendVer, lastEvent, movesVer, shownVer>>

CallToCoordFromOffset ==
    Apply("toCoordFromOffset", "offset", "coord", toCoordFromOffset(val.v))

CallToCoord == Apply("toCoord", "offset", "coord", toCoord(val.v))

CallToOffset == Apply("toOffset", "coord", "offset", toOffset(val.v))

CallToCoordFromXY ==
    Apply("toCoordFromXY", "xy", "coord", toCoordFromXY(val.v[1], val.v[2]))

CallToXYFromCoord == Apply("toXYFromCoord", "coord", "xy", toXYFromCoord(val.v))

CallTransformRowsOffset ==
    Apply("transformRowsOffset", "pieces", "rows", transformRowsOffset(val.v))

CallUpdateBoard ==
    Apply("updateBoard", "pieces", "rows", AppRows([pieces |-> val.v]))

CallTransformRows ==
    Apply("transformRows", "pieceList", "rows", transformRows(val.v))

ChessInit ==
    /\ component = "chess"
    /\ \E kind \in {"offset", "xy", "coord", "pieces", "pieceList"} :
          \E v \in Inputs(kind) : arg = Value(kind, v)
    /\ val = arg
    /\ applied = <<>>
    /\ rows = <<>>
    /\ selected = NULL
    /\ moves = <<>>
    /\ turn = "White"
    /\ whiteChecked = FALSE
    /\ blackChecked = FALSE
    /\ winner = ""
    /\ swal = <<>>
    /\ updateListener = FALSE
    /\ board = [rows |-> <<>>, selected |-> NULL, moves |-> <<>>]
    /\ state = StateReset
    /\ classList = [id \in {} |-> {}]
    /\ innerHTML = [id \in {} |-> ""]
    /\ clickListeners = FALSE
    /\ clicks = 0
    /\ handlers = EmptyBag
    /\ events = <<>>
    /\ backendVer = 0
    /\ lastEvent = Event("load", NULL, NULL, <<>>, NULL)
    /\ movesVer = 0
    /\ shownVer = 0

ChessNext ==
    \/ CallToCoordFromOffset
    \/ CallToCoord
    \/ CallToOffset
    \/ CallToCoordFromXY
    \/ CallToXYFromCoord
    \/ CallTransformRowsOffset
    \/ CallUpdateBoard
    \/ CallTransformRows

ChessSpec == ChessInit /\ [][ChessNext]_vars

\* ------------------------------------------------- the selection, per component
SelNow ==
    CASE component = "Game" -> selected
      [] component = "App" -> board.selected
      [] component = "Dom" -> state.coord

CandsNow ==
    CASE component = "Game" -> moves
      [] component = "App" -> board.moves
      [] component = "Dom" -> state.moves

NoHighlights == \A id \in DOMAIN classList : classList[id] \cap {"from", "to"} = {}

IdleNow ==
    /\ SelNow = NULL
    /\ CandsNow = <<>>
    /\ component = "Dom" => ~state.isMoving

HasCandidateTo(mvs, coord) == \E k \in DOMAIN mvs : mvs[k].to = coord

FetchOnly(coord) == <<Call("get_available_moves", coord, NoMove)>>

\* ------------------------------------------------- properties
\* C1: in the Game component, a click from Selected(origin, candidates) on a
\* square other than origin that some candidate leads to issues exactly one
\* call, exec_move with that candidate as stored, and suspends there; when the
\* acknowledgement arrives the handler issues no further call and the state
\* is Idle (selected = null, moves = []).
C1_ExecuteCandidate ==
    [][component = "Game" =>
        /\ (/\ lastEvent'.type = "click"
            /\ selected # NULL
            /\ lastEvent'.coord # selected
            /\ HasCandidateTo(moves, lastEvent'.coord))
           => \E k \in DOMAIN moves :
                 /\ moves[k].to = lastEvent'.coord
                 /\ lastEvent'.issued = <<Call("exec_move", NULL, moves[k])>>
                 /\ handlers' = Suspend(Handler(lastEvent'.coord, "executeMove",
                                                moves[k], selected))
        /\ lastEvent'.type = "executeMoveAck"
           => /\ selected' = NULL
              /\ moves' = <<>>
              /\ lastEvent'.issued = <<>>
              /\ handlers' \sqsubseteq handlers]_vars

C1_Witness ==
    /\ component = "Game"
    /\ lastEvent.type = "executeMoveAck"
    /\ lastEvent.sel # NULL
    /\ lastEvent.coord # lastEvent.sel
    /\ selected = NULL
    /\ moves = <<>>

\* C2: in the Game component and in the DOM listener, the step of a click on
\* the selected square itself ends Idle (no selection, no candidates, in the
\* DOM no highlight either) and issues no backend call.
C2_ReclickDeselects ==
    (/\ component \in {"Game", "Dom"}
     /\ lastEvent.type = "click"
     /\ lastEvent.sel # NULL
     /\ lastEvent.coord = lastEvent.sel)
    => /\ IdleNow
       /\ component = "Dom" => NoHighlights
       /\ lastEvent.issued = <<>>

C2_Witness ==
    /\ component = "Dom"
    /\ lastEvent.type = "click"
    /\ lastEvent.sel # NULL
    /\ lastEvent.coord = lastEvent.sel
    /\ state = StateReset

\* C3, as claimed: in the App component, the step of a click on the selected
\* square itself ends Idle and issues no backend call.
C3_AppReclickNoCall ==
    (/\ component = "App"
     /\ lastEvent.type = "click"
     /\ lastEvent.sel # NULL
     /\ lastEvent.coord = lastEvent.sel)
    => /\ IdleNow
       /\ lastEvent.issued = <<>>

\* C4, as claimed: a click on S made in Idle issues exactly one call,
\* get_available_moves for S, and when its answer is empty the handler issues
\* no further call (no exec_move) and leaves the machine Idle.
C4_EmptyAnswerLeavesIdle ==
    /\ (lastEvent.type = "click" /\ lastEvent.sel = NULL)
       => lastEvent.issued = FetchOnly(lastEvent.coord)
    /\ (/\ lastEvent.type = "movesReply"
        /\ lastEvent.sel = NULL
        /\ lastEvent.answer = <<>>)
       => /\ IdleNow
          /\ lastEvent.issued = <<>>

\* C5: a click from Selected(origin, candidates) on a square that is neither
\* origin nor the destination of a candidate issues exactly one call,
\* get_available_moves for that square, hence no exec_move.
C5_OtherSquareFetches ==
    [][(/\ lastEvent'.type = "click"
        /\ SelNow # NULL
        /\ lastEvent'.coord # SelNow
        /\ ~HasCandidateTo(CandsNow, lastEvent'.coord))
       => lastEvent'.issued = FetchOnly(lastEvent'.coord)]_vars

C5_Witness ==
    /\ component = "Game"
    /\ lastEvent.type = "click"
    /\ selected # NULL
    /\ lastEvent.sel = selected
    /\ lastEvent.coord # selected
    /\ ~HasCandidateTo(moves, lastEvent.coord)
    /\ lastEvent.issued = FetchOnly(lastEvent.coord)

\* C6: in the Game component, when the answer arrives for a click made from
\* Selected(origin, candidates) on another square D, an empty answer makes the
\* state Idle and a non-empty one makes it Selected(D, answer), the stored
\* candidates being exactly the answer.
C6_NewSelectionReplaces ==
    (/\ component = "Game"
     /\ lastEvent.type = "movesReply"
     /\ lastEvent.sel # NULL
     /\ lastEvent.coord # lastEvent.sel)
    => IF lastEvent.answer = <<>>
       THEN selected = NULL /\ moves = <<>>
       ELSE selected = lastEvent.coord /\ moves = lastEvent.answer

C6_Witness ==
    /\ component = "Game"
    /\ lastEvent.type = "movesReply"
    /\ lastEvent.sel # NULL
    /\ lastEvent.coord # lastEvent.sel
    /\ lastEvent.answer # <<>>
    /\ selected = lastEvent.coord
    /\ moves = lastEvent.answer

\* C7, as claimed: in the DOM listener, when the answer to a click made from
\* Selected(origin, candidates) on another square is empty, the machine is
\* Idle (state.isMoving = false, no from/to highlight).
C7_DomEmptyAnswerIdle ==
    (/\ component = "Dom"
     /\ lastEvent.type = "movesReply"
     /\ lastEvent.sel # NULL
     /\ lastEvent.coord # lastEvent.sel
     /\ lastEvent.answer = <<>>)
    => /\ ~state.isMoving
       /\ NoHighlights

\* C8, as claimed: right after a successful applyFen or undo call the
\* selection is Idle (selected = null, moves = []).
C8_PositionChangeResets ==
    lastEvent.type \in {"applyFen", "undo"} => selected = NULL /\ moves = <<>>

\* C9, as claimed: in the Game component a stored selection's candidates were
\* computed on the board version of the snapshot on screen.
C9_CandidatesCurrent ==
    (component = "Game" /\ selected # NULL) => movesVer = shownVer

\* C10: in the Game component, once a snapshot has been rendered, rows, turn,
\* whiteChecked, blackChecked and winner are those built from the snapshot
\* delivered last (the getBoard result, then every 'update' payload in
\* order), whatever requests are in flight.
C10_LastSnapshotRendered ==
    (component = "Game" /\ rows # <<>>)
    => LET payload == GamePayload(shownVer)
       IN  /\ rows = transformRows(payload.pieces)
           /\ turn = payload.turn
           /\ whiteChecked = payload.whiteChecked
           /\ blackChecked = payload.blackChecked
           /\ winner = payload.winner

C10_Witness ==
    /\ component = "Game"
    /\ lastEvent.type = "update"
    /\ shownVer = MaxVer
    /\ \E h \in Suspended : h.pc \in {"executeMove", "getAvailableMoves"}
    /\ rows = transformRows(GamePayload(MaxVer).pieces)

\* C11: in the Game component, the step that applies a snapshot (the getBoard
\* result of init, or a payload delivered to the 'update' listener) leaves
\* selected and moves as they were, whatever the snapshot holds.
C11_SnapshotKeepsSelection ==
    [][(component = "Game" /\ lastEvent'.type \in {"getBoard", "update"})
       => /\ selected' = selected
          /\ moves' = moves]_vars

C11_Witness ==
    /\ component = "Game"
    /\ lastEvent.type = "update"
    /\ selected # NULL
    /\ moves # <<>>
    /\ shownVer > movesVer
    /\ rows = transformRows(GamePayload(shownVer).pieces)

\* C12: in the Game and App components, a click that calls the backend and
\* whose executeMove or getAvailableMoves call is rejected changes neither the
\* selection (selected square and candidates) nor the snapshot on screen:
\* not at the click, and not when the rejection reaches the handler.
C12_FailedCallKeepsState ==
    [][(/\ component \in {"Game", "App"}
        /\ \/ lastEvent'.type = "click" /\ lastEvent'.issued # <<>>
           \/ /\ lastEvent'.type = "rejected"
              /\ \E h \in Suspended :
                    /\ h.pc \in {"executeMove", "getAvailableMoves"}
                    /\ h.reply = NoReply
                    /\ handlers' = Finish(h))
       => /\ SelNow' = SelNow
          /\ CandsNow' = CandsNow
          /\ rows' = rows
          /\ board'.rows = board.rows
          /\ shownVer' = shownVer]_vars

C12_Witness ==
    /\ component = "App"
    /\ lastEvent.type = "rejected"
    /\ backendVer = 0
    /\ lastEvent.sel # NULL
    /\ board.selected = lastEvent.sel
    /\ HasCandidateTo(board.moves, lastEvent.coord)
    /\ board.rows = AppRows(ArrayPayload(0))

\* C13: offsets and labels convert back and forth without loss: for every
\* offset o in 0..63, toOffset(toCoordFromOffset(o)) = o; for every label s
\* of a1..h8, toOffset(s) is in 0..63 and toCoordFromOffset(toOffset(s)) = s.
C13_OffsetLabelRoundTrip ==
    /\ (arg.kind = "offset" /\ applied = <<"toCoordFromOffset", "toOffset">>)
       => val = arg
    /\ (arg.kind = "coord" /\ applied = <<"toOffset">>)
       => val.v \in 0..63
    /\ (arg.kind = "coord" /\ applied = <<"toOffset", "toCoordFromOffset">>)
       => val = arg

C13_Witness ==
    /\ arg.kind = "coord"
    /\ arg.v = <<104, 56>>
    /\ applied = <<"toOffset", "toCoordFromOffset">>
    /\ val = arg

\* C14: index pairs and labels convert back and forth without loss: for all
\* x, y in 0..7, toXYFromCoord(toCoordFromXY(x, y)) = (x, y); for every label
\* s of a1..h8, toCoordFromXY applied to toXYFromCoord(s) gives s.
C14_XYLabelRoundTrip ==
    /\ (arg.kind = "xy" /\ applied = <<"toCoordFromXY", "toXYFromCoord">>)
       => val = arg
    /\ (arg.kind = "coord" /\ applied = <<"toXYFromCoord", "toCoordFromXY">>)
       => val = arg

C14_Witness ==
    /\ arg.kind = "xy"
    /\ arg.v = <<7, 0>>
    /\ applied = <<"toCoordFromXY", "toXYFromCoord">>
    /\ val.v = <<7, 0>>

\* the positions of a grid: row i, square j
GridPositions(grid) == {<<i, j>> : i \in DOMAIN grid, j \in 1..8}

\* C15: for a 64-element piece array, the grid built by the offset-indexed
\* builders (the earlier transformRows, App's updateBoard) has 64 squares
\* with 64 different labels, together exactly a1..h8, and the square labelled
\* with file f and rank r carries the array's entry at offset f*8 + r (files
\* and ranks counted from 0), nothing where that entry is absent.
C15_OffsetGridComplete ==
    (/\ arg.kind = "pieces"
     /\ applied \in {<<"transformRowsOffset">>, <<"updateBoard">>})
    => LET grid == val.v
           square(pos) == grid[pos[1]].squares[pos[2]]
       IN  /\ \A i \in DOMAIN grid : Len(grid[i].squares) = 8
           /\ Cardinality(GridPositions(grid)) = 64
           /\ \A pos, other \in GridPositions(grid) :
                 pos # other => square(pos).coord # square(other).coord
           /\ {square(pos).coord : pos \in GridPositions(grid)} = Labels
           /\ \A pos \in GridPositions(grid) :
                 LET L == square(pos).coord
                 IN  square(pos).piece = arg.v[(L[1] - 97) * 8 + (L[2] - 49) + 1]

C15_Witness ==
    /\ arg.kind = "pieces"
    /\ applied = <<"updateBoard">>
    /\ arg.v[34] = "WhitePawn"
    /\ arg.v[1] = "BlackKing"
    /\ val.v[7].squares[5] = [coord |-> e2, piece |-> "WhitePawn"]
    /\ val.v[8].squares[1] = [coord |-> <<97, 49>>, piece |-> "BlackKing"]
    /\ val.v[1].squares[8] = [coord |-> <<104, 56>>, piece |-> NoPiece]

\* C16: the grid a render builder returns (Game's transformRows over a piece
\* list, the earlier transformRows over a piece array) has exactly 8 rows of
\* exactly 8 squares; the k-th row has row index 8 - k (rank 8 first, rank 1
\* last) and its j-th square is labelled with the j-th file of a..h and the
\* row's rank.
C16_RowsTopDown ==
    (applied \in {<<"transformRows">>, <<"transformRowsOffset">>})
    => LET grid == val.v
           cells(k) == IF applied = <<"transformRows">> THEN grid[k].pieces
                       ELSE grid[k].squares
       IN  /\ Len(grid) = 8
           /\ \A k \in 1..8 :
                 /\ grid[k].row = 8 - k
                 /\ Len(cells(k)) = 8
                 /\ \A j \in 1..8 : cells(k)[j].coord = <<96 + j, 48 + (9 - k)>>

C16_Witness ==
    /\ applied = <<"transformRows">>
    /\ Len(arg.v) = 2
    /\ arg.v[1].coord = e2
    /\ arg.v[2].coord = d7
    /\ val.v[1].row = 7
    /\ val.v[8].row = 0
    /\ val.v[7].pieces[5] = arg.v[1]
    /\ val.v[2].pieces[4] = arg.v[2]
    /\ val.v[8].pieces[1] = [coord |-> <<97, 49>>]

\* C17: in the Game component swal.fire is called only by a step that applies
\* a received snapshot (the getBoard result or an 'update' payload) whose
\* winner is non-empty and differs from the stored one; every such step
\* calls it once, with the name that snapshot carries, which is then the
\* stored winner.  Hence no call while all received snapshots have no winner.
C17_WinnerFromSnapshot ==
    [][component = "Game" =>
        /\ swal' # swal
           => /\ lastEvent'.type \in {"getBoard", "update"}
              /\ GamePayload(shownVer').winner # ""
              /\ winner' = GamePayload(shownVer').winner
              /\ winner' # winner
              /\ swal' = Append(swal, HasWon(GamePayload(shownVer').winner))
        /\ (winner' # winner /\ winner' # "") => swal' # swal]_vars

C17_Witness ==
    /\ component = "Game"
    /\ lastEvent.type = "update"
    /\ winner = "Black"
    /\ GamePayload(shownVer).winner = "Black"
    /\ swal = <<HasWon("Black")>>

\* C18, as claimed: in the Game component and the DOM listener at most one
\* click's invocation is suspended on a backend request at any time (so no
\* second get_available_moves or exec_move is issued while one is awaited).
C18_SingleRequestInFlight ==
    component \in {"Game", "Dom"}
    => LET inFlight == {h \in Suspended : h.coord # NULL}
       IN  /\ Cardinality(inFlight) <= 1
           /\ \A h \in inFlight : CopiesIn(h, handlers) = 1

\* C19: in every reachable state of the Game component selected is null
\* exactly when moves is empty.
C19_SelectedIffCandidates ==
    component = "Game" => (selected = NULL <=> moves = <<>>)

C19_Witness ==
    /\ component = "Game"
    /\ lastEvent.type = "movesReply"
    /\ lastEvent.sel # NULL
    /\ lastEvent.answer = <<>>
    /\ selected = NULL
    /\ moves = <<>>
    /\ Suspended # {}

\* the first element of mvs whose destination is coord is mv
FirstCandidateTo(mvs, coord, mv) ==
    \E k \in DOMAIN mvs :
        /\ mvs[k] = mv
        /\ mv.to = coord
        /\ \A j \in 1..(k - 1) : mvs[j].to # coord

\* C20: whichever component runs, an exec_move call is issued only by a click
\* made while a selection is present, and its argument is the first element
\* of the candidate list stored at that moment whose destination is the
\* clicked square; no other step issues exec_move.
C20_ExecFromCandidates ==
    [][\A k \in DOMAIN lastEvent'.issued :
          lastEvent'.issued[k].op = "exec_move"
          => /\ lastEvent'.type = "click"
             /\ SelNow # NULL
             /\ lastEvent'.sel = SelNow
             /\ FirstCandidateTo(CandsNow, lastEvent'.coord,
                                 lastEvent'.issued[k].mv)]_vars

C20_Witness ==
    /\ component = "App"
    /\ lastEvent.type = "click"
    /\ board.selected # NULL
    /\ Len(board.moves) = 2
    /\ board.moves[2].to = lastEvent.coord
    /\ lastEvent.issued = <<Call("exec_move", NULL, board.moves[2])>>

\* one step of the App component or the DOM listener, as C21 describes it
ExecRefetchResetStep ==
    component \in {"App", "Dom"} =>
        /\ (/\ lastEvent'.type = "click"
            /\ \E k \in DOMAIN lastEvent'.issued : lastEvent'.issued[k].op = "exec_move")
           => /\ Len(lastEvent'.issued) = 1
              /\ SelNow' = SelNow
              /\ CandsNow' = CandsNow
        /\ lastEvent'.type = "executeMoveAck"
           => /\ \E h \in Suspended : h.pc = "executeMove" /\ h.reply.status = "ok"
              /\ lastEvent'.issued = <<Call("get_board", NULL, NoMove)>>
              /\ SelNow' = SelNow
              /\ CandsNow' = CandsNow
              /\ state' = state
              /\ classList' = classList
        /\ lastEvent'.type = "updated"
           => /\ \E h \in Suspended :
                    /\ h.pc \in {"update", "updateBoard"}
                    /\ h.reply.status = "ok"
                    /\ shownVer' = h.reply.ver
              /\ lastEvent'.issued = <<>>
              /\ IdleNow'
              /\ component = "Dom" => NoHighlights'
        /\ (board'.rows # board.rows \/ innerHTML' # innerHTML)
           => /\ lastEvent'.type \in {"getBoard", "updated"}
              /\ component = "App"
                 => board'.rows = AppRows(ArrayPayload(shownVer'))
              /\ component = "Dom"
                 => innerHTML' = DomBoard(ArrayPayload(shownVer').pieces, innerHTML)

\* C21: in the App component and the DOM listener, a click that executes a
\* move issues exec_move and nothing else; the step that receives the
\* acknowledgement issues exactly one get_board and changes neither the
\* selection nor the board on screen; the step that receives the re-fetched
\* snapshot draws it and leaves the selection Idle, issuing nothing.  The
\* board on screen changes in no other step than one that draws a snapshot
\* fetched from the backend.
C21_ExecRefetchReset == [][ExecRefetchResetStep]_vars

C21_Witness ==
    /\ component = "Dom"
    /\ lastEvent.type = "updated"
    /\ lastEvent.sel = e2
    /\ shownVer = 1
    /\ state = StateReset
    /\ NoHighlights
    /\ innerHTML[e2] = ""
    /\ innerHTML[PawnSquare(1)] = "White_pawn"

\* C22, as claimed: in the Game component, once the listener is registered
\* and nothing is pending (no request in flight, no payload undelivered), the
\* snapshot on screen is the latest one the backend produced.
C22_LatestSnapshotShown ==
    (/\ component = "Game"
     /\ updateListener
     /\ events = <<>>
     /\ handlers = EmptyBag)
    => shownVer = backendVer

\* C23: the grid Game's transformRows builds from a coord-keyed piece list
\* holds each label of a1..h8 exactly once; the square labelled L is the
\* first piece of the list whose coord is L, or, when there is none, an empty
\* square carrying only that label; a piece whose coord is no label of the
\* board is nowhere in the grid.
C23_CoordGridComplete ==
    (arg.kind = "pieceList" /\ applied = <<"transformRows">>)
    => LET grid == val.v
           cell(pos) == grid[pos[1]].pieces[pos[2]]
           hits(L) == {k \in DOMAIN arg.v : arg.v[k].coord = L}
       IN  /\ \A i \in DOMAIN grid : Len(grid[i].pieces) = 8
           /\ Cardinality(GridPositions(grid)) = 64
           /\ \A L \in Labels :
                 Cardinality({pos \in GridPositions(grid) : cell(pos).coord = L}) = 1
           /\ \A pos \in GridPositions(grid) :
                 LET L == cell(pos).coord
                 IN  IF hits(L) = {}
                     THEN cell(pos) = [coord |-> L]
                     ELSE cell(pos) = arg.v[CHOOSE k \in hits(L) :
                                                  \A j \in hits(L) : k <= j]
           /\ \A k \in DOMAIN arg.v :
                 arg.v[k].coord \notin Labels
                 => \A pos \in GridPositions(grid) : cell(pos) # arg.v[k]

C23_Witness ==
    /\ arg.kind = "pieceList"
    /\ applied = <<"transformRows">>
    /\ Len(arg.v) = 2
    /\ arg.v[1].coord = e2
    /\ arg.v[2].coord = e2
    /\ val.v[7].pieces[5] = arg.v[1]
    /\ val.v[7].pieces[4] = [coord |-> <<100, 50>>]

\* C24: the offset encoding is file-major in every conversion: for all x, y
\* in 0..7, toOffset(toCoordFromXY(x, y)) = x*8 + y; and for every offset o in
\* 0..63 the DOM variant's toCoord(o) and toCoordFromOffset(o) are the same
\* label, the one with file o div 8 and rank o mod 8 (counted from 0).
C24_FileMajorEverywhere ==
    /\ (arg.kind = "xy" /\ applied = <<"toCoordFromXY", "toOffset">>)
       => val.v = arg.v[1] * 8 + arg.v[2]
    /\ (arg.kind = "offset" /\ applied = <<"toCoord">>)
       => /\ val.v = toCoordFromOffset(arg.v)
          /\ val.v = <<97 + (arg.v \div 8), 49 + (arg.v % 8)>>
    /\ (arg.kind = "offset" /\ applied = <<"toCoordFromOffset">>)
       => /\ val.v = toCoord(arg.v)
          /\ val.v = <<97 + (arg.v \div 8), 49 + (arg.v % 8)>>

C24_Witness ==
    /\ arg.kind = "xy"
    /\ arg.v = <<1, 0>>
    /\ applied = <<"toCoordFromXY", "toOffset">>
    /\ val.kind = "offset"
    /\ val.v = 8

====
